---------------------------- MODULE Spec2Model ----------------------------
(***************************************************************************)
(* A model of the display pipeline of wireless_spool_watchy:               *)
(*   - dither_image (src/hal/sdl2/app_hal.c), the Floyd-Steinberg          *)
(*     quantizer, executed one pixel of its double loop per step;          *)
(*   - hal_setup, flush_cb, hal_loop and hal_cleanup of the SDL2 HAL,      *)
(*     acting on the static window/renderer/texture/pixel_buffer.          *)
(*   - setup, loop, drawUI and checkAndReconnectWiFi of the Watchy         *)
(*     firmware (src/src/main.cpp), with the clock and the WiFi link as    *)
(*     its environment.                                                    *)
(* The parts have a specification each (SpecDither, Spec, SpecWatchy); the *)
(* variables of the parts a specification does not run keep their initial  *)
(* value.  dither_image is called from nowhere in the HAL: SpecDither runs *)
(* it on buffers of its own.  In Spec the HAL is called the way a host     *)
(* main does: hal_setup while no pixel buffer is held, flush_cb through    *)
(* LVGL once the driver is registered, one call at a time.                 *)
(***************************************************************************)
EXTENDS Integers, Sequences, FiniteSets, TLC

VARIABLES
    pixels,        \* dither_image: the memory at and after `pixels`
    width,         \* dither_image: parameter width
    height,        \* dither_image: parameter height
    dx,            \* dither_image: loop variable x
    dy,            \* dither_image: loop variable y
    dpc,           \* dither_image: "loop" inside the loops, "done" after return
    input,         \* the buffer as it was handed to the running call
    pass,          \* 1: the call on the input, 2: the call on its own output
    carried,       \* the `error` of the pixel processed last (0 before any)
    window,        \* static SDL_Window *window:     "null", "live" or "freed"
    renderer,      \* static SDL_Renderer *renderer: "null", "live" or "freed"
    texture,       \* static SDL_Texture *texture:   "null", "live" or "freed"
    pixel_buffer,  \* static uint32_t *pixel_buffer: "null" or "live"
    fb,            \* the words pixel_buffer points to (NoBuffer while it is NULL)
    sdl_init,      \* SDL is initialised (SDL_Init succeeded, no SDL_Quit since)
    registered,    \* disp_drv, with flush_cb, is registered with LVGL
    exited,        \* the process has called exit(0)
    fresh,         \* no flush_cb call since hal_setup initialised pixel_buffer
    last,          \* the HAL call just made: what it was given and what it did
    device,        \* firmware: "reset", "running", "deep_sleep" or "setup_failed"
    now,           \* firmware: millis()
    wifi_status,   \* firmware: WiFi.status() == WL_CONNECTED
    wifiConnected,          \* main.cpp globals and statics, under their names
    wifiDisconnectedTime,
    reconnectionAttempts,
    lastDrawTime,
    lastWiFiCheck,
    lastUpdateTime,
    returned,      \* what the last call of checkAndReconnectWiFi returned
    screen,        \* the last refresh of the e-paper panel
    vehicleCount,  \* main.cpp global: the number of vehicles listed
    vehicleIPs,    \* the addresses behind vehicleNames[0 .. vehicleCount-1]
    indexed,       \* the array indices the last drawUI or handleRoot used
    mdns           \* the addresses MDNS.queryService / MDNS.IP(i) answer with

dvars == <<pixels, width, height, dx, dy, dpc, input, pass, carried>>

hvars == <<window, renderer, texture, pixel_buffer, fb, sdl_init, registered,
           exited, fresh, last>>

wvars == <<device, now, wifi_status, wifiConnected, wifiDisconnectedTime,
           reconnectionAttempts, lastDrawTime, lastWiFiCheck, lastUpdateTime,
           returned, screen>>

vvars == <<vehicleCount, vehicleIPs, indexed, mdns>>

vars == <<dvars, hvars, wvars, vvars>>

(***************************************************************************)
(* Bounds of the quantizer's inputs.                                       *)
(***************************************************************************)
MaxW == 3

MaxH == 3

MaxCells == 6

\* Gray levels the input pixels are drawn from: both sides of the threshold,
\* the extremes, and levels near enough the ends for the clamp to act.
Levels == {0, 100, 127, 128, 200, 255}

\* Cells of memory modelled: the buffer and what a stray write could reach
\* (the farthest index the loop body can form is (h+1)*w).
MemCells(w, h) == 0 .. (w * h + w + 1)

Region(w, h) == 0 .. (w * h - 1)

(***************************************************************************)
(* C arithmetic.                                                           *)
(***************************************************************************)
\* int division truncates toward zero (error * 7 / 16 with error < 0)
CDiv(a, b) == IF a >= 0 THEN a \div b ELSE -((-a) \div b)

\* (uint8_t) conversion
U8(v) == v % 256

\* (variant: the clamp left out)
Clamp255_none(v) == v

\* v > 255 ? 255 : (v < 0 ? 0 : v)
Clamp255(v) == IF v > 255 THEN 255 ELSE (IF v < 0 THEN 0 ELSE v)

(***************************************************************************)
(* dither_image                                                            *)
(***************************************************************************)
\* (variant: the two outputs swapped)
Threshold_inverted(oldPixel) == IF oldPixel < 128 THEN 255 ELSE 0

\* line 41: (oldPixel < 128) ? 0 : 255
Threshold(oldPixel) == IF oldPixel < 128 THEN 0 ELSE 255

\* (variant: the division rounding down instead of toward zero)
ErrorShare_floor(error, k) == (error * k) \div 16

\* the term added to a neighbour: error * k / 16
ErrorShare(error, k) == CDiv(error * k, 16)

\* (variant: line 50's guard x + 1 < width left out)
Neighbours_noRightGuard(w, h, x, y) ==
    << <<y * w + x + 1, 7>> >>
    \o (IF y + 1 < h
        THEN (IF x > 0 THEN << <<(y + 1) * w + x - 1, 3>> >> ELSE << >>)
             \o << <<(y + 1) * w + x, 5>> >>
             \o (IF x + 1 < w THEN << <<(y + 1) * w + x + 1, 1>> >> ELSE << >>)
        ELSE << >>)

\* (variant: the 3/16 term written to row y instead of row y + 1)
Neighbours_sameRowLeft(w, h, x, y) ==
    (IF x + 1 < w THEN << <<y * w + x + 1, 7>> >> ELSE << >>)
    \o (IF y + 1 < h
        THEN (IF x > 0 THEN << <<y * w + x - 1, 3>> >> ELSE << >>)
             \o << <<(y + 1) * w + x, 5>> >>
             \o (IF x + 1 < w THEN << <<(y + 1) * w + x + 1, 1>> >> ELSE << >>)
        ELSE << >>)

\* lines 50-61: the indices written for pixel (x, y) and the weight of each,
\* in the order of the code
Neighbours(w, h, x, y) ==
    (IF x + 1 < w THEN << <<y * w + x + 1, 7>> >> ELSE << >>)
    \o (IF y + 1 < h
        THEN (IF x > 0 THEN << <<(y + 1) * w + x - 1, 3>> >> ELSE << >>)
             \o << <<(y + 1) * w + x, 5>> >>
             \o (IF x + 1 < w THEN << <<(y + 1) * w + x + 1, 1>> >> ELSE << >>)
        ELSE << >>)

\* one neighbour assignment:
\*   pixels[t] = (uint8_t)(clamp(pixels[t] + error * k / 16))
Diffuse(p, t, error, k) ==
    IF t \in DOMAIN p
    THEN [p EXCEPT ![t] = U8(Clamp255(p[t] + ErrorShare(error, k)))]
    ELSE p

RECURSIVE DiffuseAll(_, _, _)
DiffuseAll(p, ts, error) ==
    IF ts = << >> THEN p
    ELSE DiffuseAll(Diffuse(p, Head(ts)[1], error, Head(ts)[2]), Tail(ts), error)

\* lines 38-61: the loop body for pixel (x, y)
DitherPixel(p, w, h, x, y) ==
    LET oldPixel == p[y * w + x]
        newPixel == Threshold(oldPixel)
        error    == oldPixel - newPixel
    IN  DiffuseAll([p EXCEPT ![y * w + x] = newPixel], Neighbours(w, h, x, y), error)

\* the error computed at line 44 for pixel (x, y)
PixelError(p, w, x, y) == p[y * w + x] - Threshold(p[y * w + x])

\* a buffer of w x h pixels followed by the bytes after it (which hold 100)
Memory(w, h, px) ==
    [i \in MemCells(w, h) |-> IF i \in Region(w, h) THEN px[i] ELSE 100]

Dims == {d \in (0 .. MaxW) \X (0 .. MaxH) : d[1] * d[2] <= MaxCells}

\* the row of the spec's scenario C
ScenarioRow == <<0, 64, 128, 192, 255>>

ScenarioMemory == Memory(5, 1, [i \in 0 .. 4 |-> ScenarioRow[i + 1]])

(***************************************************************************)
(* The Watchy firmware (src/src/main.cpp): its constants and its state     *)
(* when the ESP32 comes out of reset.                                      *)
(***************************************************************************)
\* (variant: the limit the comment of line 72 speaks of)
MAX_RECONNECTION_ATTEMPTS_five == 4 + 1

\* line 72 (the comment there says "Try 5 times before sleeping")
MAX_RECONNECTION_ATTEMPTS == 1

\* line 96: BatteryDisplay::updateIntervalMs
updateIntervalMs == 60000

\* line 799: the draw timer of loop()
DrawIntervalMs == 60000

\* line 794: the WiFi check timer of loop()
WiFiCheckIntervalMs == 15000

\* The clock advances in steps of Tick milliseconds, up to MaxTime after a
\* reset; anything shorter than a Tick takes no time.
Tick == 15000

MaxTime == 150000

\* The answers of an mDNS query: at most MaxResults addresses, among them
\* the two drawUI rejects and more valid ones than it has room for.
MaxResults == 4

IPs == {"", "0.0.0.0", "10.0.0.1", "10.0.0.2", "10.0.0.3", "10.0.0.4"}

MdnsAnswers == UNION {[1 .. n -> IPs] : n \in 0 .. MaxResults}

\* the answers the network changes between while the firmware runs: nothing,
\* one vehicle, a vehicle answering twice beside a rejected address, and
\* more vehicles than drawUI lists
LiveAnswers ==
    {<< >>,
     <<"10.0.0.1">>,
     <<"10.0.0.1", "0.0.0.0", "10.0.0.1", "10.0.0.2">>,
     <<"10.0.0.1", "10.0.0.2", "10.0.0.3", "10.0.0.4">>}

\* nothing has been drawn since the reset
NoScreen == [shown |-> "none", mode |-> "none", by |-> "none", at |-> 0,
             prev_at |-> -1]

\* Globals and statics are initialised anew at every reset (a wake-up from
\* deep sleep is a reset), millis() restarts at 0 and the WiFi is off.
WatchyInit ==
    /\ device = "reset"
    /\ now = 0
    /\ wifi_status = FALSE
    /\ wifiConnected = FALSE
    /\ wifiDisconnectedTime = 0
    /\ reconnectionAttempts = 0
    /\ lastDrawTime = 0
    /\ lastWiFiCheck = 0
    /\ lastUpdateTime = 0
    /\ returned = "none"
    /\ screen = NoScreen
    /\ vehicleCount = 0
    /\ vehicleIPs = << >>
    /\ indexed = {}

(***************************************************************************)
(* The SDL2 HAL: its constants and the state of its statics at load time.  *)
(***************************************************************************)
\* DISPLAY_WIDTH and DISPLAY_HEIGHT are 200 in the source; the panel of the
\* model is scaled down to a size whose frame buffers can be enumerated.
\* flush_cb uses the two only as the limits of w, h, px and py and as the
\* row stride of pixel_buffer.
DISPLAY_WIDTH == 2

DISPLAY_HEIGHT == 2

SDL_HOR_RES == DISPLAY_WIDTH

SDL_VER_RES == DISPLAY_HEIGHT

\* how far outside the panel the coordinates of a flushed area may lie
Margin == 1

PanelCells == 0 .. (SDL_HOR_RES * SDL_VER_RES - 1)

\* fb while pixel_buffer is NULL
NoBuffer == << >>

NoArea == [x1 |-> 0, y1 |-> 0, x2 |-> 0, y2 |-> 0]

\* the record of a HAL call that is not a flush
Did(op, path, events) ==
    [op |-> op, path |-> path, events |-> events, area |-> NoArea, px |-> << >>,
     old |-> NoBuffer, written |-> {}, changed_count |-> 0, repeat |-> FALSE,
     first |-> FALSE]

\* no HAL call is being looked at
Idle == Did("idle", "ok", << >>)

\* C statics are zero-initialised: every pointer is NULL at load time
HalInit ==
    /\ window = "null"
    /\ renderer = "null"
    /\ texture = "null"
    /\ pixel_buffer = "null"
    /\ fb = NoBuffer
    /\ sdl_init = FALSE
    /\ registered = FALSE
    /\ exited = FALSE
    /\ fresh = FALSE
    /\ last = Idle

StartCall(w, h, mem) ==
    /\ width = w
    /\ height = h
    /\ pixels = mem
    /\ input = mem
    /\ dx = 0
    /\ dy = 0
    /\ dpc = IF w > 0 /\ h > 0 THEN "loop" ELSE "done"
    /\ pass = 1
    /\ carried = 0
    /\ HalInit
    /\ WatchyInit
    /\ mdns = << >>

InitDither ==
    \/ \E d \in Dims : \E px \in [Region(d[1], d[2]) -> Levels] :
          StartCall(d[1], d[2], Memory(d[1], d[2], px))
    \/ StartCall(5, 1, ScenarioMemory)

\* one iteration of the inner loop (lines 36-62) and the loop headers
DitherStep ==
    /\ dpc = "loop"
    /\ pixels' = DitherPixel(pixels, width, height, dx, dy)
    /\ carried' = PixelError(pixels, width, dx, dy)
    /\ IF dx + 1 < width
       THEN /\ dx' = dx + 1
            /\ dy' = dy
            /\ dpc' = dpc
       ELSE /\ dx' = 0
            /\ dy' = dy + 1
            /\ dpc' = IF dy + 1 < height THEN "loop" ELSE "done"
    /\ UNCHANGED <<width, height, input, pass, hvars, wvars, vvars>>

\* the quantizer applied to its own output
DitherAgain ==
    /\ dpc = "done"
    /\ pass = 1
    /\ width > 0 /\ height > 0
    /\ input' = pixels
    /\ pass' = 2
    /\ dx' = 0
    /\ dy' = 0
    /\ dpc' = "loop"
    /\ carried' = 0
    /\ UNCHANGED <<pixels, width, height, hvars, wvars, vvars>>

NextDither == DitherStep \/ DitherAgain

SpecDither == InitDither /\ [][NextDither]_vars

(***************************************************************************)
(* Properties of dither_image (checked under SpecDither).                  *)
(***************************************************************************)
\* number of pixels the running call has quantized so far
Processed == IF dpc = "done" THEN width * height ELSE dy * width + dx

IsBlackWhite(v) == v \in {0, 255}

RowOf(mem, w, h) == [i \in Region(w, h) |-> mem[i]]

\* every pixel quantized so far holds 0 or 255
C3_QuantizedBlackWhite == \A i \in Region(width, height) :
    i < Processed => IsBlackWhite(pixels[i])

\* a step of the call leaves the pixels quantized before it as they are
C3_QuantizedFrozen == \A i \in Region(width, height) :
    (i < Processed /\ dpc = "loop") => pixels'[i] = pixels[i]

\* C3: every pixel dither_image has quantized holds 0 or 255 (so the buffer it
\* leaves holds nothing else), and no later step of the call changes a pixel
\* that was already quantized.
C3_OnlyBlackWhite == [](C3_QuantizedBlackWhite) /\ [][C3_QuantizedFrozen]_vars

\* a finished call on a full-size region with gray input below and above
\* the threshold
C3_Witness ==
    /\ dpc = "done" /\ pass = 1 /\ width = 3 /\ height = 2
    /\ \E i, j \in Region(width, height) : input[i] = 100 /\ input[j] = 200
    /\ \A i \in Region(width, height) : IsBlackWhite(pixels[i])

\* The Floyd-Steinberg operator as the spec words it: pixel k of the
\* row-major order becomes new = (old < 128 ? 0 : 255); with error = old - new
\* the pixel at offset (+1,0), (-1,+1), (0,+1), (+1,+1) inside the region gains
\* error*7/16, error*3/16, error*5/16, error*1/16 and is clamped to [0,255];
\* every other pixel is left alone.
RefWeight(ox, oy) ==
    CASE ox = 1 /\ oy = 0 -> 7
      [] ox = -1 /\ oy = 1 -> 3
      [] ox = 0 /\ oy = 1 -> 5
      [] ox = 1 /\ oy = 1 -> 1
      [] OTHER -> 0

RefSign(e) == IF e < 0 THEN -1 ELSE 1

RefShare(e, k) == RefSign(e) * ((RefSign(e) * e * k) \div 16)

RefClamp(v) == IF v < 0 THEN 0 ELSE IF v > 255 THEN 255 ELSE v

RefStep(b, w, k) ==
    LET new == IF b[k] < 128 THEN 0 ELSE 255
        err == b[k] - new
    IN  [q \in DOMAIN b |->
            IF q = k THEN new
            ELSE LET wgt == RefWeight((q % w) - (k % w), (q \div w) - (k \div w))
                 IN  IF wgt = 0 THEN b[q] ELSE RefClamp(b[q] + RefShare(err, wgt))]

RECURSIVE RefFS(_, _, _)
RefFS(b, w, n) == IF n = 0 THEN b ELSE RefStep(RefFS(b, w, n - 1), w, n - 1)

\* C5: after each pixel, and so at its return, dither_image has computed what
\* the reference Floyd-Steinberg operator computes on the same input.
C5_EqualsReference ==
    RowOf(pixels, width, height) = RefFS(RowOf(input, width, height), width, Processed)

\* a finished call on a 3 x 2 region in which error was diffused and a clamp
\* acted: the result differs from thresholding the input pixel by pixel
C5_Witness ==
    /\ dpc = "done" /\ pass = 1 /\ width = 3 /\ height = 2
    /\ \E i \in Region(width, height) : pixels[i] # Threshold(input[i])
    /\ input[0] = 127 /\ input[1] = 255

\* the bytes after the buffer are what they were when the call began
C6_OutsideIntact == \A i \in DOMAIN pixels :
    i \notin Region(width, height) => pixels[i] = input[i]

\* the step for the last pixel of a row of three or more leaves the first
\* pixel of the next row alone
C6_NoWrap ==
    (dpc = "loop" /\ dx = width - 1 /\ width >= 3 /\ dy + 1 < height)
        => pixels'[(dy + 1) * width] = pixels[(dy + 1) * width]

\* C6: dither_image writes no byte outside pixels[0 .. width*height-1], and
\* the step for the last pixel of a row leaves the first pixel of the next row
\* alone (where that pixel is none of its three lower neighbours): error that
\* would leave the region is dropped, not wrapped.
C6_ErrorDiscardedAtEdges == [](C6_OutsideIntact) /\ [][C6_NoWrap]_vars

\* the last pixel of the first row of a 3 x 2 region was just quantized with a
\* non-zero error, and the last pixel of the last row after it
C6_Witness ==
    /\ width = 3 /\ height = 2 /\ pass = 1
    /\ input[2] = 100 /\ input[5] = 200
    /\ dpc = "done" /\ carried # 0

\* C7: on a buffer holding only 0 and 255 the quantizer changes nothing: the
\* threshold maps 0 and 255 to themselves, every error is 0, and the buffer
\* stays what it was; this covers dither_image run on its own output.
C7_Idempotent ==
    /\ \A i \in Region(width, height) :
          Threshold(Threshold(input[i])) = Threshold(input[i])
    /\ (\A i \in Region(width, height) : IsBlackWhite(input[i]))
          => (pixels = input /\ carried = 0)

\* the second call, on the output of a first call that did change its input
C7_Witness ==
    /\ pass = 2 /\ dpc = "done" /\ width = 3 /\ height = 2
    /\ \E i, j \in Region(width, height) : input[i] = 0 /\ input[j] = 255
    /\ pixels = input

IsScenario == width = 5 /\ height = 1 /\ input = ScenarioMemory /\ pass = 1

ThresholdRow(mem, w, h) == [i \in Region(w, h) |-> IF mem[i] < 128 THEN 0 ELSE 255]

\* C8 as claimed: on the row [0, 64, 128, 192, 255] pixel 0 hands an error of
\* -64 to the 64-valued pixel, and the row dither_image returns differs from
\* the row thresholded pixel by pixel.
C8_CarriesMinus64 ==
    /\ (IsScenario /\ dpc = "loop" /\ dx = 1) => carried = -64
    /\ (IsScenario /\ dpc = "done")
          => RowOf(pixels, 5, 1) # ThresholdRow(input, 5, 1)

\* the row after each pixel of the scenario, and the error of that pixel
ScenarioRows ==
    << <<0, 64, 128, 192, 255>>,
       <<0, 64, 128, 192, 255>>,
       <<0, 0, 156, 192, 255>>,
       <<0, 0, 255, 149, 255>>,
       <<0, 0, 255, 255, 209>>,
       <<0, 0, 255, 255, 255>> >>

ScenarioErrors == <<0, 0, 64, -99, -106, -46>>

\* C8 amended: on the row [0, 64, 128, 192, 255] pixel 0 (value 0) has error 0
\* and carries nothing; the 64-valued pixel quantizes to 0 and carries +64
\* (28 into the 128-valued pixel); the errors are 0, 64, -99, -106, -46 and the
\* row returned is [0, 0, 255, 255, 255], the same as thresholding the row.
C8_ScenarioTrace ==
    IsScenario =>
        /\ \A i \in 0 .. 4 : pixels[i] = ScenarioRows[Processed + 1][i + 1]
        /\ carried = ScenarioErrors[Processed + 1]
        /\ (dpc = "done" => RowOf(pixels, 5, 1) = ThresholdRow(input, 5, 1))

C8_Witness ==
    /\ IsScenario /\ dpc = "done"
    /\ RowOf(pixels, 5, 1) = [i \in 0 .. 4 |-> <<0, 0, 255, 255, 255>>[i + 1]]

(***************************************************************************)
(* The SDL2 HAL: hal_setup, flush_cb, hal_loop, hal_cleanup.               *)
(***************************************************************************)
\* brightness levels LVGL's lv_color_brightness reports for the pixels of a
\* px_map; a px_map entry is represented by that brightness
GrayLevels == {0, 128, 255}

\* A uint32_t is kept as its two 16-bit halves <<high, low>> (TLC's integers
\* are 32-bit signed), a pixel_buffer word as its bytes <<A, R, G, B>>.

\* conversion of an int to uint32_t (two's complement)
U32(v) == <<(v \div 65536) % 65536, v % 65536>>

\* memset(pixel_buffer, byte, ...): every byte of every word
MemsetWord(byte) == <<byte, byte, byte, byte>>

\* (variant: the shifts left out, brightness in the blue byte only)
Argb_noShift(brightness) == <<255, 0, 0, brightness>>

\* line 105: 0xFF000000 | (brightness << 16) | (brightness << 8) | brightness
Argb(brightness) == <<255, brightness, brightness, brightness>>

\* lines 68-69: uint32_t w = (area->x2 - area->x1 + 1), h likewise
AreaW(area) == U32(area.x2 - area.x1 + 1)

AreaH(area) == U32(area.y2 - area.y1 + 1)

\* unsigned comparisons of line 72: w <= 0 is w == 0
IsZero(u) == u[1] = 0 /\ u[2] = 0

Exceeds(u, n) == u[1] > 0 \/ u[2] > n

\* (variant: the zero checks left out)
InvalidDimensions_noZero(w, h) ==
    Exceeds(w, SDL_HOR_RES) \/ Exceeds(h, SDL_VER_RES)

\* line 72
InvalidDimensions(w, h) ==
    IsZero(w) \/ IsZero(h) \/ Exceeds(w, SDL_HOR_RES) \/ Exceeds(h, SDL_VER_RES)

\* the value of a uint32_t that passed line 72
Val(u) == u[2]

\* (variant: the bounds check of line 93 left out)
Pos_noBounds(area, w, k) ==
    (area.y1 + (k \div w)) * SDL_HOR_RES + (area.x1 + (k % w))

\* (variant: the area's width as row stride)
Pos_regionStride(area, w, k) ==
    LET px == area.x1 + (k % w)
        py == area.y1 + (k \div w)
    IN  IF px >= 0 /\ px < SDL_HOR_RES /\ py >= 0 /\ py < SDL_VER_RES
        THEN py * w + px
        ELSE -1

\* lines 91-96: where pixel k = y * w + x of the area lands in pixel_buffer,
\* or -1 when the bounds check rejects it
Pos(area, w, k) ==
    LET px == area.x1 + (k % w)
        py == area.y1 + (k \div w)
    IN  IF px >= 0 /\ px < SDL_HOR_RES /\ py >= 0 /\ py < SDL_VER_RES
        THEN py * SDL_HOR_RES + px
        ELSE -1

\* lines 89-110: the copy loops, from pixel k of the area on
RECURSIVE CopyPixels(_, _, _, _, _, _)
CopyPixels(buf, area, px, w, h, k) ==
    IF k >= w * h THEN buf
    ELSE LET pos == Pos(area, w, k)
         IN  CopyPixels(IF pos \in DOMAIN buf
                        THEN [buf EXCEPT ![pos] = Argb(px[k])]
                        ELSE buf,
                        area, px, w, h, k + 1)

\* the entries of pixel_buffer the copy loops assign
Written(area, w, h) ==
    {Pos(area, w, k) : k \in 0 .. (w * h - 1)} \ {-1}

\* Each path of flush_cb is the sequence of the calls it makes, printf
\* included (named by the message's first word).

\* lines 72-76
InvalidPath(buf) ==
    [path |-> "invalid",
     events |-> <<"printf Warning", "lv_disp_flush_ready">>, fb |-> buf]

\* (variant: the NULL check falling through to the texture update)
NullPath_draws(buf) ==
    [path |-> "null",
     events |-> <<"printf Flushing", "SDL_UpdateTexture", "lv_disp_flush_ready">>,
     fb |-> buf]

\* lines 78-86
NullPath(buf) ==
    [path |-> "null",
     events |-> <<"printf Flushing", "printf Error", "lv_disp_flush_ready">>,
     fb |-> buf]

\* (variant: the failure path returning without the signal)
UpdateFailedPath_noReady(buf) ==
    [path |-> "update_failed",
     events |-> <<"printf Flushing", "SDL_UpdateTexture", "printf Error">>,
     fb |-> buf]

\* (variant: the failed update tried a second time)
UpdateFailedPath_retry(buf) ==
    [path |-> "update_failed",
     events |-> <<"printf Flushing", "SDL_UpdateTexture", "printf Error",
                  "SDL_UpdateTexture", "lv_disp_flush_ready">>,
     fb |-> buf]

\* lines 78-79 and 113-117
UpdateFailedPath(buf) ==
    [path |-> "update_failed",
     events |-> <<"printf Flushing", "SDL_UpdateTexture", "printf Error",
                  "lv_disp_flush_ready">>,
     fb |-> buf]

\* lines 78-79 and 113-124
RenderPath(buf) ==
    [path |-> "rendered",
     events |-> <<"printf Flushing", "SDL_UpdateTexture", "SDL_RenderClear",
                  "SDL_RenderCopy", "SDL_RenderPresent", "lv_disp_flush_ready">>,
     fb |-> buf]

\* (variant: a diff tracker in front of lines 112-124, nothing is sent to
\* the panel when the copy changed no entry)
Refresh_skipUnchanged(old, new, updated) ==
    IF old = new
    THEN [path |-> "unchanged",
          events |-> <<"printf Flushing", "lv_disp_flush_ready">>, fb |-> new]
    ELSE IF updated THEN RenderPath(new) ELSE UpdateFailedPath(new)

\* lines 112-124: `updated` is SDL_UpdateTexture returning 0
Refresh(old, new, updated) ==
    IF updated THEN RenderPath(new) ELSE UpdateFailedPath(new)

\* lines 66-125: one call of flush_cb on frame buffer `buf`
FlushCall(buf, live, area, px, updated) ==
    LET w == AreaW(area)
        h == AreaH(area)
    IN  IF InvalidDimensions(w, h) THEN InvalidPath(buf)
        ELSE IF ~live THEN NullPath(buf)
        ELSE Refresh(buf, CopyPixels(buf, area, px, Val(w), Val(h), 0), updated)

Count(events, e) == Cardinality({i \in DOMAIN events : events[i] = e})

XCoords == (0 - Margin) .. (SDL_HOR_RES - 1 + Margin)

YCoords == (0 - Margin) .. (SDL_VER_RES - 1 + Margin)

Areas == [x1 : XCoords, y1 : YCoords, x2 : XCoords, y2 : YCoords]

\* the px_maps LVGL may hand over with an area: w * h colours; none is read
\* when the dimensions are rejected
PxMaps(area) ==
    IF InvalidDimensions(AreaW(area), AreaH(area))
    THEN {<< >>}
    ELSE [0 .. (Val(AreaW(area)) * Val(AreaH(area)) - 1) -> GrayLevels]

\* SDL_UpdateTexture can only succeed on a texture that exists
UpdateResult(ok) == texture = "live" /\ ok

\* one call of flush_cb (lines 66-125) with its effect on the statics
FlushStep(area, px, ok, again) ==
    LET r == FlushCall(fb, pixel_buffer = "live", area, px, UpdateResult(ok))
        wr == IF r.path \in {"invalid", "null"}
              THEN {}
              ELSE Written(area, Val(AreaW(area)), Val(AreaH(area)))
    IN  /\ fb' = r.fb
        /\ fresh' = FALSE
        /\ last' = [op |-> "flush", path |-> r.path, events |-> r.events,
                    area |-> area, px |-> px, old |-> fb, written |-> wr,
                    changed_count |->
                        Cardinality({pos \in wr \cap DOMAIN fb : r.fb[pos] # fb[pos]}),
                    repeat |-> again, first |-> fresh]
        /\ UNCHANGED <<window, renderer, texture, pixel_buffer, sdl_init,
                       registered, exited, dvars, wvars, vvars>>

\* flush_cb, called back by LVGL (lv_task_handler in hal_loop) once the
\* display driver is registered, with an area and px_map of LVGL's choice
flush_cb ==
    /\ registered
    /\ ~exited
    /\ last = Idle
    /\ \E area \in Areas : \E px \in PxMaps(area) : \E ok \in BOOLEAN :
          FlushStep(area, px, ok, FALSE)

\* flush_cb called again, right after a call, with the same area and px_map
flush_cb_again ==
    /\ registered
    /\ ~exited
    /\ last.op = "flush"
    /\ \E ok \in BOOLEAN : FlushStep(last.area, last.px, ok, TRUE)

SetupOutcomes == {"init_failed", "window_failed", "renderer_failed",
                  "texture_failed", "malloc_failed", "ok"}

\* (variant: the buffer cleared to 0x00)
InitialFrame_black == [pos \in PanelCells |-> MemsetWord(0)]

\* line 267: memset(pixel_buffer, 0xFF, buffer_size)
InitialFrame == [pos \in PanelCells |-> MemsetWord(255)]

\* hal_setup (lines 192-312), called while no pixel buffer is held; `outcome`
\* says which SDL call or malloc fails, `ok` whether the SDL_UpdateTexture of
\* line 270 succeeds (its failure is only logged)
hal_setup ==
    /\ ~exited
    /\ last = Idle
    /\ pixel_buffer = "null"
    /\ \E outcome \in SetupOutcomes :
        CASE outcome = "init_failed" ->
               /\ last' = Did("setup", outcome, << >>)
               /\ UNCHANGED <<window, renderer, texture, pixel_buffer, fb,
                              sdl_init, registered, fresh>>
          [] outcome = "window_failed" ->
               /\ window' = "null"
               /\ sdl_init' = FALSE
               /\ last' = Did("setup", outcome, <<"SDL_Quit">>)
               /\ UNCHANGED <<renderer, texture, pixel_buffer, fb, registered, fresh>>
          [] outcome = "renderer_failed" ->
               /\ window' = "freed"
               /\ renderer' = "null"
               /\ sdl_init' = FALSE
               /\ last' = Did("setup", outcome, <<"SDL_DestroyWindow", "SDL_Quit">>)
               /\ UNCHANGED <<texture, pixel_buffer, fb, registered, fresh>>
          [] outcome = "texture_failed" ->
               /\ window' = "freed"
               /\ renderer' = "freed"
               /\ texture' = "null"
               /\ sdl_init' = FALSE
               /\ last' = Did("setup", outcome,
                              <<"SDL_DestroyRenderer", "SDL_DestroyWindow", "SDL_Quit">>)
               /\ UNCHANGED <<pixel_buffer, fb, registered, fresh>>
          [] outcome = "malloc_failed" ->
               /\ window' = "freed"
               /\ renderer' = "freed"
               /\ texture' = "freed"
               /\ pixel_buffer' = "null"
               /\ sdl_init' = FALSE
               /\ last' = Did("setup", outcome,
                              <<"SDL_DestroyTexture", "SDL_DestroyRenderer",
                                "SDL_DestroyWindow", "SDL_Quit">>)
               /\ UNCHANGED <<fb, registered, fresh>>
          [] outcome = "ok" ->
               /\ window' = "live"
               /\ renderer' = "live"
               /\ texture' = "live"
               /\ pixel_buffer' = "live"
               /\ fb' = InitialFrame
               /\ sdl_init' = TRUE
               /\ registered' = TRUE
               /\ fresh' = TRUE
               /\ last' = Did("setup", outcome,
                              <<"SDL_UpdateTexture", "SDL_RenderClear",
                                "SDL_RenderCopy", "SDL_RenderPresent">>)
    /\ UNCHANGED <<exited, dvars, wvars, vvars>>

\* the release hal_cleanup makes of a pointer it finds non-NULL; a pointer
\* whose object a failed hal_setup already destroyed is released again
Release(ptr, call) ==
    IF ptr = "null" THEN << >>
    ELSE IF ptr = "live" THEN <<call>>
    ELSE <<call \o " (dangling)">>

\* lines 355-384: the calls of hal_cleanup, in its order (dither_buffer is
\* never allocated and stays NULL)
CleanupCalls ==
    Release(pixel_buffer, "free") \o Release(texture, "SDL_DestroyTexture")
        \o Release(renderer, "SDL_DestroyRenderer")
        \o Release(window, "SDL_DestroyWindow") \o <<"SDL_Quit">>

DanglingReleases ==
    {"free (dangling)", "SDL_DestroyTexture (dangling)",
     "SDL_DestroyRenderer (dangling)", "SDL_DestroyWindow (dangling)"}

\* hal_cleanup releases an object a second time: undefined behaviour
ReleasesDangling == \E i \in DOMAIN CleanupCalls : CleanupCalls[i] \in DanglingReleases

\* what hal_cleanup (lines 351-387) leaves: every pointer NULL, SDL quit
Cleaned ==
    /\ window' = "null"
    /\ renderer' = "null"
    /\ texture' = "null"
    /\ pixel_buffer' = "null"
    /\ fb' = NoBuffer
    /\ sdl_init' = FALSE
    /\ fresh' = FALSE

\* hal_cleanup (lines 351-387).  Releasing an object a second time is
\* undefined: the call may go on as if nothing had happened, or the process
\* may die in it.
hal_cleanup ==
    /\ ~exited
    /\ last = Idle
    /\ \/ /\ Cleaned
          /\ last' = Did("cleanup", "ok", CleanupCalls)
          /\ UNCHANGED exited
       \/ /\ ReleasesDangling
          /\ exited' = TRUE
          /\ last' = Did("cleanup", "crashed", CleanupCalls)
          /\ UNCHANGED <<window, renderer, texture, pixel_buffer, fb,
                         sdl_init, fresh>>
    /\ UNCHANGED <<registered, dvars, wvars, vvars>>

\* hal_loop receiving SDL_QUIT (lines 320-326): hal_cleanup, SDL_Quit, exit
hal_loop_quit ==
    /\ ~exited
    /\ last = Idle
    /\ sdl_init
    /\ Cleaned
    /\ exited' = TRUE
    /\ last' = Did("quit", "ok", CleanupCalls \o <<"SDL_Quit", "exit">>)
    /\ UNCHANGED <<registered, dvars, wvars, vvars>>

\* the call has returned and the program goes on: hal_loop without SDL_QUIT
\* and with nothing for LVGL to flush (lines 329-348) changes no static
hal_loop_idle ==
    /\ ~exited
    /\ last # Idle
    /\ last' = Idle
    /\ UNCHANGED <<window, renderer, texture, pixel_buffer, fb, sdl_init,
                   registered, exited, fresh, dvars, wvars, vvars>>

DitherIdle == StartCall(0, 0, Memory(0, 0, << >>))

Init == DitherIdle

Next ==
    \/ hal_setup
    \/ flush_cb
    \/ flush_cb_again
    \/ hal_cleanup
    \/ hal_loop_quit
    \/ hal_loop_idle

Spec == Init /\ [][Next]_vars

(***************************************************************************)
(* The Watchy firmware: setup, loop, drawUI, checkAndReconnectWiFi.        *)
(***************************************************************************)
\* how long a part of setup() or loop() may take
Durations == {0, Tick}

\* (variant: a partial window set before drawing)
drawUI_window_partial == "partial"

\* line 370: display.setFullWindow() in drawUI
drawUI_window == "full"

\* lines 547 and 634: display.setFullWindow() before the two sleep screens
sleep_window == "full"

\* (variant: the limit compared with >)
GiveUp_late(attempts) == attempts > MAX_RECONNECTION_ATTEMPTS

\* line 622: reconnectionAttempts >= MAX_RECONNECTION_ATTEMPTS
GiveUp(attempts) == attempts >= MAX_RECONNECTION_ATTEMPTS

\* what a call of checkAndReconnectWiFi ends in
Outcome(ret, sleep, wdt, ra, link) ==
    [ret |-> ret, sleep |-> sleep, wifiDisconnectedTime |-> wdt,
     reconnectionAttempts |-> ra, link |-> link]

\* checkAndReconnectWiFi (lines 513-685) called at time t: `found` says
\* whether the scan lists WIFI_SSID, `connects` whether WiFi.status() becomes
\* WL_CONNECTED within the ten polls after WiFi.begin.  A call that enters
\* deep sleep does not return (ret "none").
checkAndReconnectWiFi(t, found, connects) ==
    IF wifi_status
    THEN Outcome("true", "none", 0, 0, TRUE)
    ELSE LET wdt == IF wifiDisconnectedTime = 0 THEN t ELSE wifiDisconnectedTime
             ra == IF wifiDisconnectedTime = 0 THEN 0 ELSE reconnectionAttempts
         IN  IF ~found
             THEN Outcome("none", "No WiFi found", wdt, ra, FALSE)
             ELSE IF connects
             THEN Outcome("true", "none", 0, 0, TRUE)
             ELSE IF GiveUp(ra + 1)
             THEN Outcome("none", "WiFi connect failed", wdt, ra + 1, FALSE)
             ELSE Outcome("false", "none", wdt, ra + 1, FALSE)

\* line 408: currentIP == "0.0.0.0" || currentIP.length() == 0
IsInvalidIP(currentIP) == currentIP = "0.0.0.0" \/ currentIP = ""

\* lines 413-421: currentIP is already in uniqueIPs[0 .. uniqueCount-1]
IsDuplicate(currentIP, uniqueIPs) ==
    \E j \in 1 .. Len(uniqueIPs) : currentIP = uniqueIPs[j]

\* (variant: the loop running over all n answers)
ScanGoesOn_noCap(i, n, uniqueCount) == i < n

\* line 404: i < n && uniqueCount < 3
ScanGoesOn(i, n, uniqueCount) == i < n /\ uniqueCount < 3

\* lines 404-428: the first loop of drawUI from answer i on; uniqueIPs holds
\* uniqueIPs[0 .. uniqueCount-1]
RECURSIVE FindUnique(_, _, _)
FindUnique(answers, i, uniqueIPs) ==
    IF ~ScanGoesOn(i, Len(answers), Len(uniqueIPs)) THEN uniqueIPs
    ELSE LET currentIP == answers[i + 1]
         IN  IF IsInvalidIP(currentIP) \/ IsDuplicate(currentIP, uniqueIPs)
             THEN FindUnique(answers, i + 1, uniqueIPs)
             ELSE FindUnique(answers, i + 1, Append(uniqueIPs, currentIP))

\* lines 392-451: the addresses of the vehicles drawUI lists when the query
\* answers with `answers` (n is their number)
Vehicles(answers) ==
    IF Len(answers) > 0 THEN FindUnique(answers, 0, << >>) ELSE << >>

\* lines 396, 435-450: vehicleCount is reset, then the second loop stores one
\* vehicle per unique address, at index vehicleCount, and increments it
ListVehicles ==
    LET uniqueIPs == Vehicles(mdns)
    IN  /\ vehicleCount' = Len(uniqueIPs)
        /\ vehicleIPs' = uniqueIPs
        /\ indexed' = 0 .. (Len(uniqueIPs) - 1)
        /\ UNCHANGED mdns

\* the refresh drawUI (lines 369-510) does when called at time t by `by`
drawUI(by, t) ==
    [shown |-> "ui", mode |-> drawUI_window, by |-> by, at |-> t,
     prev_at |-> IF by = "loop" /\ screen.by = "loop" /\ screen.shown = "ui"
                 THEN screen.at ELSE -1]

\* the sleep screen of lines 547-570 and 634-658
SleepScreen(by, t, message) ==
    [shown |-> message, mode |-> sleep_window, by |-> by, at |-> t,
     prev_at |-> -1]

\* the globals checkAndReconnectWiFi leaves
Checked(r) ==
    /\ wifiDisconnectedTime' = r.wifiDisconnectedTime
    /\ reconnectionAttempts' = r.reconnectionAttempts
    /\ wifi_status' = r.link
    /\ returned' = r.ret

\* esp_deep_sleep_start() inside checkAndReconnectWiFi: the call never
\* returns and nothing more of setup() or loop() runs
DeepSleep(r, by, t) ==
    /\ Checked(r)
    /\ device' = "deep_sleep"
    /\ screen' = SleepScreen(by, t, r.sleep)
    /\ now' = t

\* setup() (lines 747-786): setupWiFiAndOTA, then the web server and the
\* first drawUI.  The WiFi check is reached a Tick after the reset (the
\* display is initialised first); dDraw is the time drawUI takes.
setup ==
    /\ device = "reset"
    /\ \E dDraw \in Durations, found \in BOOLEAN, connects \in BOOLEAN :
          LET t == now + Tick
              r == checkAndReconnectWiFi(t, found, connects)
          IN  IF r.sleep # "none"
              THEN /\ DeepSleep(r, "setup", t)
                   /\ UNCHANGED <<wifiConnected, lastDrawTime, lastWiFiCheck,
                                  lastUpdateTime, vvars>>
              ELSE IF r.ret = "false"
              THEN /\ Checked(r)
                   /\ device' = "setup_failed"
                   /\ now' = t
                   /\ UNCHANGED <<wifiConnected, lastDrawTime, lastWiFiCheck,
                                  lastUpdateTime, screen, vvars>>
              ELSE /\ Checked(r)
                   /\ device' = "running"
                   /\ screen' = drawUI("setup", t)
                   /\ ListVehicles
                   /\ wifiConnected' = r.link
                   /\ now' = t + dDraw
                   /\ UNCHANGED <<lastDrawTime, lastWiFiCheck, lastUpdateTime>>
    /\ UNCHANGED <<dvars, hvars>>

\* (variant: the interval measured from the draw timer's time stamp)
shouldUpdate_sinceDraw(t) == t - lastDrawTime >= updateIntervalMs

\* BatteryDisplay::shouldUpdate (lines 116-124) called at time t
shouldUpdate(t) == t - lastUpdateTime >= updateIntervalMs

\* a loop() iteration that does not reach its WiFi check changes none of
\* the globals of checkAndReconnectWiFi
NotChecked ==
    Outcome(returned, "none", wifiDisconnectedTime, reconnectionAttempts,
            wifi_status)

\* one iteration of loop() (lines 788-811).  Arduino calls loop() again and
\* again once setup() has returned, whichever way it returned.  dCheck is the
\* time checkAndReconnectWiFi takes, dDraw the time drawUI takes, dRest the
\* time of the OTA and web server handlers and of delay(10).
loop ==
    /\ device \in {"running", "setup_failed"}
    /\ \E dCheck \in Durations, dDraw \in Durations, dRest \in Durations,
          found \in BOOLEAN, connects \in BOOLEAN :
          LET currentTime == now
              check == currentTime - lastWiFiCheck >= WiFiCheckIntervalMs
              r == IF check
                   THEN checkAndReconnectWiFi(currentTime, found, connects)
                   ELSE NotChecked
              t1 == currentTime + (IF check THEN dCheck ELSE 0)
              timer == currentTime - lastDrawTime >= DrawIntervalMs
              battery == ~timer /\ shouldUpdate(t1)
              draw == timer \/ battery
              t2 == t1 + (IF draw THEN dDraw ELSE 0) + dRest
          IN  /\ t2 <= MaxTime
              /\ IF r.sleep # "none"
                 THEN /\ DeepSleep(r, "loop", t1)
                      /\ UNCHANGED <<wifiConnected, lastDrawTime, lastWiFiCheck,
                                     lastUpdateTime, vvars>>
                 ELSE /\ Checked(r)
                      /\ lastWiFiCheck' = IF check THEN currentTime ELSE lastWiFiCheck
                      /\ lastUpdateTime' = IF battery THEN t1 ELSE lastUpdateTime
                      /\ IF draw
                         THEN /\ screen' = drawUI("loop", t1)
                              /\ ListVehicles
                              /\ wifiConnected' = r.link
                              /\ lastDrawTime' = currentTime
                         ELSE UNCHANGED <<screen, wifiConnected, lastDrawTime,
                                          vvars>>
                      /\ now' = t2
                      /\ device' = device
    /\ UNCHANGED <<dvars, hvars>>

\* the WiFi link drops, or comes back by itself (the ESP32 reconnects on its
\* own once WiFi.begin was called), between two loop() iterations
wifi_link_changes ==
    /\ device \in {"running", "setup_failed"}
    /\ wifi_status' = ~wifi_status
    /\ UNCHANGED <<device, now, wifiConnected, wifiDisconnectedTime,
                   reconnectionAttempts, lastDrawTime, lastWiFiCheck,
                   lastUpdateTime, returned, screen, vvars, dvars, hvars>>

\* the timer armed by esp_sleep_enable_timer_wakeup (lines 576 and 663) ends
\* the deep sleep: the chip resets and setup() runs again
wake ==
    /\ device = "deep_sleep"
    /\ device' = "reset"
    /\ now' = 0
    /\ wifi_status' = FALSE
    /\ wifiConnected' = FALSE
    /\ wifiDisconnectedTime' = 0
    /\ reconnectionAttempts' = 0
    /\ lastDrawTime' = 0
    /\ lastWiFiCheck' = 0
    /\ lastUpdateTime' = 0
    /\ returned' = "none"
    /\ screen' = NoScreen
    /\ vehicleCount' = 0
    /\ vehicleIPs' = << >>
    /\ indexed' = {}
    /\ UNCHANGED <<mdns, dvars, hvars>>

\* handleRoot (lines 319-359), run by server.handleClient() between two
\* loop() iterations once setup() has started the web server: it reads
\* vehicleNames[i] and vehicleVoltages[i] for i < vehicleCount
handleRoot ==
    /\ device = "running"
    /\ indexed' = 0 .. (vehicleCount - 1)
    /\ UNCHANGED <<vehicleCount, vehicleIPs, mdns, wvars, dvars, hvars>>

\* vehicles come and go on the network
mdns_changes ==
    /\ device # "deep_sleep"
    /\ mdns' \in LiveAnswers \ {mdns}
    /\ UNCHANGED <<vehicleCount, vehicleIPs, indexed, wvars, dvars, hvars>>

NextWatchy ==
    \/ setup
    \/ loop
    \/ handleRoot
    \/ wifi_link_changes
    \/ mdns_changes
    \/ wake

SpecWatchy == Init /\ [][NextWatchy]_vars

\* the firmware from reset to its first screen and the requests to its web
\* server, for every answer of the mDNS query
InitVehicles ==
    /\ width = 0 /\ height = 0
    /\ pixels = Memory(0, 0, << >>) /\ input = Memory(0, 0, << >>)
    /\ dx = 0 /\ dy = 0 /\ dpc = "done" /\ pass = 1 /\ carried = 0
    /\ HalInit
    /\ WatchyInit
    /\ mdns \in MdnsAnswers

NextVehicles ==
    \/ setup
    \/ handleRoot

SpecVehicles == InitVehicles /\ [][NextVehicles]_vars

(***************************************************************************)
(* Properties of flush_cb (checked under Spec).                            *)
(***************************************************************************)
IsFlush == last.op = "flush"

\* what a call did, read off its events
ReadySignals == Count(last.events, "lv_disp_flush_ready")

TextureUpdates == Count(last.events, "SDL_UpdateTexture")

RenderPresents == Count(last.events, "SDL_RenderPresent")

\* flush_cb keeps no `changed` flag: a flush counts as changed when it goes on
\* to the panel, as unchanged when it returns without touching the panel
TreatedAsChanged == TextureUpdates > 0

\* the area as the spec's DirtyRegion sizes it, in plain integers
RegionW(area) == area.x2 - area.x1 + 1

RegionH(area) == area.y2 - area.y1 + 1

Sized(area) ==
    /\ RegionW(area) >= 1 /\ RegionW(area) <= SDL_HOR_RES
    /\ RegionH(area) >= 1 /\ RegionH(area) <= SDL_VER_RES

\* the pixels <<x, y>> of the area that lie on the panel
OnPanel(area) ==
    {c \in (0 .. (RegionW(area) - 1)) \X (0 .. (RegionH(area) - 1)) :
        /\ area.x1 + c[1] >= 0 /\ area.x1 + c[1] < SDL_HOR_RES
        /\ area.y1 + c[2] >= 0 /\ area.y1 + c[2] < SDL_VER_RES}

PanelIndex(area, c) == (area.y1 + c[2]) * SDL_HOR_RES + (area.x1 + c[1])

Brightness(area, px, c) == px[c[2] * RegionW(area) + c[1]]

BlackWord == <<255, 0, 0, 0>>

WhiteWord == <<255, 255, 255, 255>>

\* C1: every call of flush_cb signals lv_disp_flush_ready exactly once, as
\* the last thing it does, whichever of its four paths it takes.
C1_FlushReadyOnce ==
    IsFlush =>
        /\ ReadySignals = 1
        /\ last.events[Len(last.events)] = "lv_disp_flush_ready"
        /\ last.path \in {"invalid", "null", "update_failed", "rendered"}

\* a call on which SDL_UpdateTexture failed after the pixels were copied
C1_Witness ==
    /\ IsFlush /\ last.path = "update_failed"
    /\ last.written # {} /\ ReadySignals = 1

\* C2 as claimed: the second of two successive flushes of the same area and
\* pixels is treated as unchanged and causes no panel write.
C2_RepeatSkipsPanel ==
    (IsFlush /\ last.repeat) =>
        /\ ~TreatedAsChanged
        /\ TextureUpdates = 0
        /\ RenderPresents = 0

\* C2 amended: the second of two successive flushes of the same area and
\* pixels changes no entry of pixel_buffer, yet it is sent to the panel like
\* any flush: one SDL_UpdateTexture and, when that succeeds, one
\* SDL_RenderPresent.
C2_RepeatRedraws ==
    (IsFlush /\ last.repeat) =>
        /\ last.changed_count = 0
        /\ (Sized(last.area) /\ pixel_buffer = "live") =>
              /\ TextureUpdates = 1
              /\ RenderPresents = (IF last.path = "rendered" THEN 1 ELSE 0)
              /\ last.path \in {"rendered", "update_failed"}

\* the whole panel flushed a second time with the same non-white pixels
C2_Witness ==
    /\ IsFlush /\ last.repeat /\ last.path = "rendered"
    /\ last.written = PanelCells
    /\ \A k \in DOMAIN last.px : last.px[k] = 128
    /\ last.changed_count = 0

\* C4 as claimed: every value a flush commits to pixel_buffer is pure black
\* or pure white.
C4_OneBit ==
    IsFlush => \A pos \in last.written : fb[pos] \in {BlackWord, WhiteWord}

\* C4 amended: every value a flush commits to pixel_buffer is the opaque gray
\* of the pixel's 8-bit brightness b, unquantized: alpha 255 and red, green
\* and blue all equal to b, for any b in 0..255.
C4_GrayCommitted ==
    (IsFlush /\ Sized(last.area) /\ pixel_buffer = "live") =>
        \A c \in OnPanel(last.area) :
            LET b == Brightness(last.area, last.px, c)
            IN  fb[PanelIndex(last.area, c)] = <<255, b, b, b>>

\* a flush that committed a mid-gray pixel next to a black and a white one
C4_Witness ==
    /\ IsFlush /\ last.path = "rendered"
    /\ \E p, q, r \in last.written :
          /\ fb[p] = <<255, 128, 128, 128>>
          /\ fb[q] = BlackWord
          /\ fb[r] = WhiteWord

\* C9: the first flush after hal_setup initialised pixel_buffer is treated as
\* changed whatever its pixels are: every pixel of the area that lies on the
\* panel is stored, and the buffer is sent to the panel.
C9_FirstFlushChanged ==
    (IsFlush /\ last.first /\ Sized(last.area)) =>
        /\ TreatedAsChanged
        /\ TextureUpdates = 1
        /\ last.written = {PanelIndex(last.area, c) : c \in OnPanel(last.area)}

\* a first flush of the whole panel whose pixels all equal what the fresh
\* buffer holds
C9_Witness ==
    /\ IsFlush /\ last.first /\ last.path = "rendered"
    /\ last.written = PanelCells
    /\ \A k \in DOMAIN last.px : last.px[k] = 255

IsAllWhite(px) == \A k \in DOMAIN px : px[k] = 255

\* C10 as claimed: an all-white area flushed onto the freshly initialised,
\* all-white pixel_buffer is treated as unchanged and causes no panel write.
C10_WhiteOnWhiteSkips ==
    (IsFlush /\ last.first /\ Sized(last.area) /\ IsAllWhite(last.px)) =>
        /\ ~TreatedAsChanged
        /\ TextureUpdates = 0
        /\ RenderPresents = 0

\* C10 amended: an all-white area flushed onto the freshly initialised,
\* all-white pixel_buffer changes no entry (the buffer stays all white), but
\* the flush still does one SDL_UpdateTexture and, when that succeeds, one
\* SDL_RenderPresent.
C10_WhiteOnWhiteRedraws ==
    (IsFlush /\ last.first /\ Sized(last.area) /\ IsAllWhite(last.px)) =>
        /\ last.changed_count = 0
        /\ \A pos \in PanelCells : fb[pos] = WhiteWord
        /\ TextureUpdates = 1
        /\ RenderPresents = (IF last.path = "rendered" THEN 1 ELSE 0)

\* the whole panel flushed all white right after hal_setup, and presented
C10_Witness ==
    /\ IsFlush /\ last.first /\ IsAllWhite(last.px)
    /\ last.area = [x1 |-> 0, y1 |-> 0, x2 |-> SDL_HOR_RES - 1, y2 |-> SDL_VER_RES - 1]
    /\ RenderPresents = 1 /\ last.changed_count = 0

\* the word that stands for a 1-bit value v (0 black, 255 white) in
\* pixel_buffer
BitWord(v) == Argb(v)

\* the pixels of the area whose quantized value differs from what the buffer
\* held for them when the call began
QuantizedDiffs ==
    {c \in OnPanel(last.area) :
        BitWord(Threshold(Brightness(last.area, last.px, c)))
            # last.old[PanelIndex(last.area, c)]}

\* the pixels of the area whose gray word differs from what the buffer held
\* for them when the call began
GrayDiffs ==
    {c \in OnPanel(last.area) :
        Argb(Brightness(last.area, last.px, c))
            # last.old[PanelIndex(last.area, c)]}

IsAllBlack(px) == \A k \in DOMAIN px : px[k] = 0

\* C11 as claimed: the number of entries a flush changes is the number of
\* pixels of the area whose quantized (0 or 255) value differs from the
\* buffer's value before the flush, and the flush is treated as changed
\* exactly when that number is positive.
C11_QuantizedDiffCount ==
    (IsFlush /\ Sized(last.area) /\ pixel_buffer = "live") =>
        /\ last.changed_count = Cardinality(QuantizedDiffs)
        /\ TreatedAsChanged <=> (last.changed_count > 0)

\* C11 amended: flush_cb computes no changed_count and no changed flag.  The
\* number of entries a flush changes is the number of pixels of the area, on
\* the panel, whose unquantized gray word differs from the buffer's value
\* before the flush; afterwards each of them holds that gray word, and the
\* flush goes on to the panel whatever the number is.  An all-black area over
\* all-white entries changes every one of them and leaves them opaque black.
C11_GrayDiffCount ==
    (IsFlush /\ Sized(last.area) /\ pixel_buffer = "live") =>
        /\ last.changed_count = Cardinality(GrayDiffs)
        /\ \A c \in OnPanel(last.area) :
              fb[PanelIndex(last.area, c)] = Argb(Brightness(last.area, last.px, c))
        /\ TextureUpdates = 1
        /\ (IsAllBlack(last.px) /\ last.old = InitialFrame) =>
              /\ last.changed_count = Cardinality(OnPanel(last.area))
              /\ \A c \in OnPanel(last.area) :
                    fb[PanelIndex(last.area, c)] = BlackWord

\* the whole panel flushed all black over an all-white buffer
C11_Witness ==
    /\ IsFlush /\ last.path = "rendered"
    /\ last.old = InitialFrame /\ IsAllBlack(last.px)
    /\ last.written = PanelCells
    /\ last.changed_count = Cardinality(PanelCells)
    /\ \A pos \in PanelCells : fb[pos] = BlackWord

\* entry pos of pixel_buffer lies in the rectangle of the area
InRect(area, pos) ==
    /\ pos % SDL_HOR_RES >= area.x1 /\ pos % SDL_HOR_RES <= area.x2
    /\ pos \div SDL_HOR_RES >= area.y1 /\ pos \div SDL_HOR_RES <= area.y2

\* C12: a flush writes no entry of pixel_buffer outside the panel or outside
\* the flushed rectangle: every index written lies in
\* 0 .. SDL_HOR_RES * SDL_VER_RES - 1 and in the rectangle, the pixels of the
\* area that fall outside the panel are skipped, and every entry outside the
\* rectangle keeps the value it had before the call.
C12_WritesInsideRegion ==
    IsFlush =>
        /\ DOMAIN fb = DOMAIN last.old
        /\ last.written \subseteq PanelCells
        /\ \A pos \in last.written : InRect(last.area, pos)
        /\ \A pos \in DOMAIN fb :
              (pos \notin last.written \/ ~InRect(last.area, pos)) =>
                  fb[pos] = last.old[pos]
        /\ (Sized(last.area) /\ pixel_buffer = "live") =>
              last.written = {PanelIndex(last.area, c) : c \in OnPanel(last.area)}

\* an area lying partly left of and above the panel was flushed: only its
\* pixel on the panel was stored, and a gray entry outside it was kept
C12_Witness ==
    /\ IsFlush /\ last.path = "rendered"
    /\ last.area = [x1 |-> -1, y1 |-> -1, x2 |-> 0, y2 |-> 0]
    /\ last.written = {0}
    /\ fb[0] = BlackWord
    /\ \E pos \in PanelCells \ {0} :
          fb[pos] = <<255, 128, 128, 128>> /\ last.old[pos] = fb[pos]

\* the statics the HAL retains between calls
retained == <<window, renderer, texture, pixel_buffer, fb, sdl_init, registered>>

\* C13: a flush called while pixel_buffer is NULL (never allocated, its
\* allocation failed, or freed by hal_cleanup) copies and draws nothing: it
\* does no SDL_UpdateTexture and no render call, leaves every retained static
\* as it was, and still signals lv_disp_flush_ready once.
C13_NullBufferStep ==
    (last'.op = "flush" /\ pixel_buffer = "null") =>
        /\ UNCHANGED retained
        /\ Count(last'.events, "SDL_UpdateTexture") = 0
        /\ Count(last'.events, "SDL_RenderCopy") = 0
        /\ Count(last'.events, "SDL_RenderPresent") = 0
        /\ Count(last'.events, "lv_disp_flush_ready") = 1
        /\ last'.written = {}
        /\ last'.changed_count = 0
        /\ last'.path \in {"invalid", "null"}
        /\ Sized(last'.area) => last'.path = "null"

C13_NullBufferSkips == [][C13_NullBufferStep]_vars

\* a flush of the whole panel arrived after a hal_setup whose malloc failed,
\* and returned on the NULL check
C13_Witness ==
    /\ IsFlush /\ last.path = "null"
    /\ pixel_buffer = "null" /\ texture = "freed"
    /\ last.area = [x1 |-> 0, y1 |-> 0, x2 |-> SDL_HOR_RES - 1, y2 |-> SDL_VER_RES - 1]
    /\ ReadySignals = 1 /\ TextureUpdates = 0

\* the calls a flush made after its (first) SDL_UpdateTexture
RECURSIVE AfterUpdate(_)
AfterUpdate(events) ==
    IF events = << >> THEN << >>
    ELSE IF Head(events) = "SDL_UpdateTexture" THEN Tail(events)
    ELSE AfterUpdate(Tail(events))

\* C14: when SDL_UpdateTexture fails during a flush, the failure is reported
\* (printf), the update is not tried again, no render call follows, and
\* lv_disp_flush_ready is still signalled: after the failed update the call
\* does exactly those two things.
C14_UpdateFailureAcknowledged ==
    (IsFlush /\ last.path = "update_failed") =>
        /\ TextureUpdates = 1
        /\ AfterUpdate(last.events) = <<"printf Error", "lv_disp_flush_ready">>
        /\ Count(last.events, "SDL_RenderClear") = 0
        /\ Count(last.events, "SDL_RenderCopy") = 0
        /\ RenderPresents = 0
        /\ ReadySignals = 1

\* SDL_UpdateTexture failed on a flush that had stored new pixels
C14_Witness ==
    /\ IsFlush /\ last.path = "update_failed"
    /\ last.changed_count > 0
    /\ Count(last.events, "printf Error") = 1
    /\ RenderPresents = 0

(***************************************************************************)
(* Properties of the Watchy firmware (checked under SpecWatchy).           *)
(***************************************************************************)
Refreshed == screen.shown # "none"

\* main.cpp passes no refresh request to drawUI or to the sleep screens: the
\* buttons are never read and the web server has no refresh route.  The one
\* refresh that answers an outside event is the drawUI of setup(), at boot.
ExplicitRequest == screen.by = "setup" /\ screen.shown = "ui"

\* C15 as claimed: a panel refresh uses a partial window unless a full
\* refresh was explicitly requested.
C15_PartialByDefault ==
    (Refreshed /\ ~ExplicitRequest) => screen.mode = "partial"

\* C15 amended: every panel refresh of the firmware uses the full window,
\* requested or not: drawUI and both sleep screens call
\* display.setFullWindow() unconditionally, and no partial window is set.
C15_AlwaysFullWindow == Refreshed => screen.mode = "full"

\* the draw timer of loop() redrew the UI, in full-window mode
C15_Witness ==
    /\ screen.shown = "ui" /\ screen.by = "loop"
    /\ screen.at >= DrawIntervalMs
    /\ screen.mode = "full"

C17_SleepsAfterFifthFailure ==
    (device = "deep_sleep" /\ screen.shown = "WiFi connect failed") =>
        reconnectionAttempts = 5

\* C18: after a drawUI call issued by loop(), the next one comes no sooner
\* than 60000 ms later.
C18_OneDrawPerMinute ==
    (screen.shown = "ui" /\ screen.by = "loop" /\ screen.prev_at >= 0) =>
        screen.at - screen.prev_at >= 60000

(***************************************************************************)
(* Properties of hal_setup, hal_cleanup and hal_loop (checked under Spec). *)
(***************************************************************************)
\* C19: no call of hal_setup, hal_cleanup or hal_loop destroys or frees a
\* window, renderer, texture or pixel buffer that was already destroyed or
\* freed; in particular a hal_cleanup after a failed hal_setup, or a second
\* hal_cleanup, releases nothing a second time.
C19_ReleasedAtMostOnce ==
    \A i \in DOMAIN last.events : last.events[i] \notin DanglingReleases

\* C20: a flush whose area has a width or height that is zero, negative
\* (x2 < x1 or y2 < y1, which wraps the unsigned size) or larger than the
\* panel's leaves pixel_buffer entirely unchanged and does no
\* SDL_UpdateTexture and no render call before it signals
\* lv_disp_flush_ready.
C20_InvalidAreaRejected ==
    (IsFlush /\ ~Sized(last.area)) =>
        /\ last.path = "invalid"
        /\ fb = last.old
        /\ last.written = {}
        /\ TextureUpdates = 0
        /\ Count(last.events, "SDL_RenderClear") = 0
        /\ Count(last.events, "SDL_RenderCopy") = 0
        /\ RenderPresents = 0
        /\ ReadySignals = 1
        /\ last.events[Len(last.events)] = "lv_disp_flush_ready"

\* an area with x2 < x1 - 1, whose unsigned width wraps, was flushed onto a
\* live buffer holding a gray entry
C20_Witness ==
    /\ IsFlush /\ last.path = "invalid"
    /\ pixel_buffer = "live"
    /\ last.area.x2 < last.area.x1 - 1
    /\ AreaW(last.area)[1] > 0
    /\ \E pos \in PanelCells : fb[pos] = <<255, 128, 128, 128>>


\* ---- the vehicle list ----

Range(f) == {f[k] : k \in DOMAIN f}

\* the addresses among the answers that drawUI accepts
ValidAnswers == {ip \in Range(mdns) : ip # "" /\ ip # "0.0.0.0"}

\* C21: in every reachable state 0 <= vehicleCount <= 3; the vehicles drawUI
\* lists stand for pairwise distinct addresses among the mDNS answers, none
\* of them empty or "0.0.0.0", whatever the number and the order of the
\* answers; and every index drawUI and handleRoot use into vehicleNames and
\* vehicleVoltages lies within the three elements of the arrays.
C21_VehiclesDistinctInRange ==
    /\ vehicleCount \in 0 .. 3
    /\ Len(vehicleIPs) = vehicleCount
    /\ \A a, b \in 1 .. Len(vehicleIPs) :
           a # b => vehicleIPs[a] # vehicleIPs[b]
    /\ \A a \in 1 .. Len(vehicleIPs) :
           /\ vehicleIPs[a] # ""
           /\ vehicleIPs[a] # "0.0.0.0"
           /\ vehicleIPs[a] \in Range(mdns)
    /\ indexed \subseteq 0 .. 2

\* drawUI has run on four answers with four distinct valid addresses and
\* listed three vehicles, and the three indices were used
C21_Witness ==
    /\ device = "running"
    /\ screen.by = "setup"
    /\ Cardinality(ValidAnswers) = 4
    /\ vehicleCount = 3
    /\ indexed = {0, 1, 2}


\* ---- the reconnection counters ----

\* a step in which a call of checkAndReconnectWiFi ends: setup() calls it
\* through setupWiFiAndOTA, loop() when the WiFi check is due
CallEnds ==
    \/ device = "reset" /\ device' # "reset"
    \/ /\ device \in {"running", "setup_failed"}
       /\ \/ lastWiFiCheck' # lastWiFiCheck
          \/ device' = "deep_sleep"

ReturnsTrueConnected ==
    (CallEnds /\ returned' = "true") =>
        /\ wifi_status'
        /\ wifiDisconnectedTime' = 0
        /\ reconnectionAttempts' = 0

\* C22: whenever checkAndReconnectWiFi returns true, WiFi is connected and
\* wifiDisconnectedTime and reconnectionAttempts are both 0; and in every
\* reachable state reconnectionAttempts <= MAX_RECONNECTION_ATTEMPTS.
C22_TrueMeansConnectedAndReset ==
    /\ [][ReturnsTrueConnected]_vars
    /\ [](returned = "true" =>
             wifiDisconnectedTime = 0 /\ reconnectionAttempts = 0)
    /\ [](reconnectionAttempts \in 0 .. MAX_RECONNECTION_ATTEMPTS)

\* the last screen was drawn with the link down, and a WiFi check of loop()
\* has since returned true with the link up and both counters at 0
C22_Witness ==
    /\ device = "running"
    /\ returned = "true"
    /\ lastWiFiCheck > 0
    /\ lastWiFiCheck > screen.at
    /\ ~wifiConnected
    /\ wifi_status
    /\ wifiDisconnectedTime = 0
    /\ reconnectionAttempts = 0

=============================================================================
